---------------------------- MODULE Spec2Model ----------------------------
(***************************************************************************)
(* A model of youtube_monitor.py: the shared YouTubeMetrics registry, the  *)
(* YouTubeMonitor workers that poll the YouTube API and write the          *)
(* registry, and main() that starts one thread per configured stream.      *)
(*                                                                         *)
(* A series of the registry is identified by <<metric name, label values   *)
(* in the order of the metric's label names>>, as prometheus_client does.  *)
(* Gauge values are floats, modelled as exact fractions <<num, den>> in    *)
(* lowest terms; counter values are naturals.                              *)
(*                                                                         *)
(* Threads interleave between the steps of run_monitor: the membership     *)
(* test of register_stream, its gauge writes, initialize_counters, the add *)
(* to registered_streams, the channel_info write of __init__, and in each  *)
(* operation of a tick the part before and the part after the HTTP         *)
(* request.  The consecutive registry writes of one such part are taken as *)
(* one step.  print and time.strftime are taken not to raise.              *)
(***************************************************************************)
EXTENDS Integers, Sequences, FiniteSets, TLC

VARIABLES
    main,                \* main(): its position, and the threads it has joined
    streams,             \* main(): the list of stream configurations
    threads,             \* main(): number of worker threads started so far
    registered_streams,  \* YouTubeMetrics.registered_streams
    gauge,               \* value of every gauge series that exists
    counter,             \* value of every counter series that exists
    info,                \* record of every info series that exists
    pc,                  \* position of each worker thread in run_monitor
    count,               \* monitor_loop's local variable count, per worker
    result,              \* value returned by the worker's last operation
    succeeded,           \* history: has any API call of the worker succeeded
    writes,              \* history: the series each worker has written
    fired                \* history: per worker, the ticks of each operation's calls

vars == <<main, streams, threads, registered_streams, gauge, counter, info,
          pc, count, result, succeeded, writes, fired>>

-----------------------------------------------------------------------------
(* Bounds of the model *)

\* ticks of monitor_loop the two interleaved workers run in total
MaxTicks == 2

\* ticks of monitor_loop the single worker of the cadence specification runs
CadenceTicks == 11

\* ticks a worker runs under the fair specifications: ticks 0..5
LiveTicks == 6

\* the tick from which on every API call fails, in the outage specification
OutageTick == 1

\* ticks of monitor_loop the two supervised workers run in total
SupervisorTicks == 1

(* Program constants *)

NumStreams == 2
engagement_interval == 5
channel_interval == 10

Workers == 1..NumStreams

-----------------------------------------------------------------------------
(* Metric schema: YouTubeMetrics.__init__ *)

StatusLabelNames == <<"channel_id", "stream", "video_id", "channel_name", "environment">>
BaseLabelNames == <<"channel_id", "stream", "video_id", "channel_name">>
ChannelLabelNames == <<"channel_id", "stream", "channel_name">>
ChannelInfoLabelNames == <<"channel_id", "channel_name">>
VideoInfoLabelNames == <<"video_id", "channel_id", "stream">>

BaseGauges == {"youtube_stream_viewers", "youtube_video_views", "youtube_video_likes",
               "youtube_video_comments", "youtube_video_favorites",
               "youtube_engagement_rate"}

Counters == {"youtube_stream_check_count", "youtube_stream_error_count",
             "youtube_api_errors"}

\* Metric.labels(**kw): the child is keyed by the values in label-name order
labels(names, kw) == [i \in 1..Len(names) |-> kw[names[i]]]

\* the label dictionaries built from a stream configuration
LabelDict(cfg) ==
    [channel_id |-> cfg.channel_id, stream |-> cfg.name, video_id |-> cfg.video_id,
     channel_name |-> cfg.channel_name, environment |-> cfg.environment]

status_labels(cfg) == labels(StatusLabelNames, LabelDict(cfg))
base_labels(cfg) == labels(BaseLabelNames, LabelDict(cfg))
channel_labels(cfg) == labels(ChannelLabelNames, LabelDict(cfg))

StatusSeries(cfg) == <<"youtube_stream_status", status_labels(cfg)>>
BaseSeries(m, cfg) == <<m, base_labels(cfg)>>
SubscribersSeries(cfg) == <<"youtube_channel_subscribers", channel_labels(cfg)>>
ChannelInfoSeries(cfg) == <<"youtube_channel", labels(ChannelInfoLabelNames, LabelDict(cfg))>>
VideoInfoSeries(cfg) == <<"youtube_video", labels(VideoInfoLabelNames, LabelDict(cfg))>>

\* f"{channel_id}_{video_id}_{stream_name}"
stream_key(cfg) == cfg.channel_id \o "_" \o cfg.video_id \o "_" \o cfg.name

-----------------------------------------------------------------------------
(* Values and the registry's write operations *)

RECURSIVE Gcd(_, _)
Gcd(a, b) == IF b = 0 THEN a ELSE Gcd(b, a % b)

\* the float n / d, as a fraction in lowest terms (d > 0, n >= 0)
Frac(n, d) == <<n \div Gcd(n, d), d \div Gcd(n, d)>>

\* float(n) for an integer n
Float(n) == <<n, 1>>

\* f with key k mapped to v (the key is added when it is new)
Put(f, k, v) == [x \in (DOMAIN f) \cup {k} |-> IF x = k THEN v ELSE f[x]]

\* Gauge.set(value) on the child series s
GaugeSet(g, s, v) == Put(g, s, v)

\* Counter.inc(amount) on the child series s; a new child starts at 0
CounterInc(c, s, amount) == Put(c, s, (IF s \in DOMAIN c THEN c[s] ELSE 0) + amount)

\* Info.info(fields) on the child series s
InfoSet(i, s, fields) == Put(i, s, fields)

\* read a counter series (0 when the series does not exist yet)
CounterValue(s) == IF s \in DOMAIN counter THEN counter[s] ELSE 0


-----------------------------------------------------------------------------
(* Inputs: stream configurations and API responses *)

FirstStream ==
    [channel_id |-> "a", video_id |-> "b_c", name |-> "s",
     channel_name |-> "n", environment |-> "Production"]

\* the configurations of the second stream: the first one again, another video
\* of the same channel, another channel (with a video id that gives the same
\* or another stream key), and the same stream under another channel name
Configs ==
    {FirstStream,
     [FirstStream EXCEPT !.video_id = "c"],
     [FirstStream EXCEPT !.channel_id = "a_b", !.video_id = "c"],
     [FirstStream EXCEPT !.channel_id = "a_b"],
     [FirstStream EXCEPT !.channel_name = "m"]}

\* response.json() of the videos?part=snippet,liveStreamingDetails call
VideoItems ==
    {[liveBroadcastContent |-> "live", title |-> "t", concurrentViewers |-> 7],
     [liveBroadcastContent |-> "none", title |-> "t", concurrentViewers |-> 0]}
VideoResponses == {<<>>} \cup {<<i>> : i \in VideoItems}

\* response.json() of the videos?part=statistics call
StatItems ==
    {[viewCount |-> 200, likeCount |-> 10, commentCount |-> 3, favoriteCount |-> 0],
     [viewCount |-> 0, likeCount |-> 0, commentCount |-> 0, favoriteCount |-> 0]}
StatResponses == {<<>>} \cup {<<i>> : i \in StatItems}

\* response.json() of the channels?part=statistics,snippet call
ChannelItems == [subscriberCount : {50}, title : {"ch"}, description : {"d"}]
ChannelResponses == {<<>>} \cup {<<i>> : i \in ChannelItems}

\* the configuration of worker w
Cfg(w) == streams[w]

\* None, the value of a Python function that falls off its end
None == <<>>

\* a worker's last return value: the operation, the value, whether the
\* "except Exception" handler returned it, and whether the API had answered
\* with no items
NoResult == [op |-> "none", value |-> None, raised |-> FALSE, empty |-> FALSE]

-----------------------------------------------------------------------------
(* main *)

\* main(): thread.start() of the next stream's run_monitor thread
main_start_thread ==
    /\ main.pc = "start"
    /\ threads < Len(streams)
    /\ threads' = threads + 1
    /\ pc' = [pc EXCEPT ![threads + 1] = "register"]
    /\ main' = [main EXCEPT !.pc = IF threads + 1 = Len(streams) THEN "join" ELSE "start"]
    /\ UNCHANGED <<streams, registered_streams, gauge, counter, info, count, result,
                   succeeded, writes, fired>>

-----------------------------------------------------------------------------
(* YouTubeMetrics.register_stream, called by YouTubeMonitor.__init__ *)

\* the gauge series register_stream sets to 0
GaugeSeries(cfg) ==
    {StatusSeries(cfg), SubscribersSeries(cfg)} \cup {BaseSeries(m, cfg) : m \in BaseGauges}

CounterSeries(cfg) == {BaseSeries(m, cfg) : m \in Counters}

\* mutant: the membership test is missing
NeverRegistered(cfg) == FALSE

\* "if stream_key in self.registered_streams: return"
AlreadyRegistered(cfg) == stream_key(cfg) \in registered_streams

\* the gauges after "Initialize all gauge metrics as 0"
ZeroGauges(g, cfg) ==
    [s \in (DOMAIN g) \cup GaugeSeries(cfg) |->
        IF s \in GaugeSeries(cfg) THEN Float(0) ELSE g[s]]

\* mutant: the counters are set to 0 instead of increased by 0
ZeroCountersReset(c, cfg) ==
    [s \in (DOMAIN c) \cup CounterSeries(cfg) |-> IF s \in CounterSeries(cfg) THEN 0 ELSE c[s]]

\* the counters after initialize_counters: inc(0) on each of the three
ZeroCounters(c, cfg) ==
    [s \in (DOMAIN c) \cup CounterSeries(cfg) |->
        IF s \in DOMAIN c THEN c[s] + 0 ELSE 0]

\* __init__ up to the membership test of register_stream
register_stream_check(w) ==
    /\ pc[w] = "register"
    /\ pc' = [pc EXCEPT ![w] = IF AlreadyRegistered(Cfg(w)) THEN "channel_info"
                                ELSE "init_gauges"]
    /\ UNCHANGED <<main, streams, threads, registered_streams, gauge, counter, info, count,
                   result, succeeded, writes, fired>>

\* register_stream: the eight gauge writes
register_stream_gauges(w) ==
    /\ pc[w] = "init_gauges"
    /\ gauge' = ZeroGauges(gauge, Cfg(w))
    /\ writes' = [writes EXCEPT ![w] = @ \cup GaugeSeries(Cfg(w))]
    /\ pc' = [pc EXCEPT ![w] = "init_counters"]
    /\ UNCHANGED <<main, streams, threads, registered_streams, counter, info, count, result,
                   succeeded, fired>>

\* register_stream: the call of initialize_counters
initialize_counters(w) ==
    /\ pc[w] = "init_counters"
    /\ counter' = ZeroCounters(counter, Cfg(w))
    /\ writes' = [writes EXCEPT ![w] = @ \cup CounterSeries(Cfg(w))]
    /\ pc' = [pc EXCEPT ![w] = "mark"]
    /\ UNCHANGED <<main, streams, threads, registered_streams, gauge, info, count, result,
                   succeeded, fired>>

\* register_stream: "self.registered_streams.add(stream_key)"
register_stream_add(w) ==
    /\ pc[w] = "mark"
    /\ registered_streams' = registered_streams \cup {stream_key(Cfg(w))}
    /\ pc' = [pc EXCEPT ![w] = "channel_info"]
    /\ UNCHANGED <<main, streams, threads, gauge, counter, info, count, result,
                   succeeded, writes, fired>>

\* the record __init__ stores in channel_info
InitChannelInfo(cfg) == [stream_name |-> cfg.name, environment |-> cfg.environment]

\* __init__: "Record channel information (metadata)"; then run_monitor calls
\* monitor_loop, which sets count = 0
init_channel_info(w) ==
    /\ pc[w] = "channel_info"
    /\ info' = InfoSet(info, ChannelInfoSeries(Cfg(w)), InitChannelInfo(Cfg(w)))
    /\ writes' = [writes EXCEPT ![w] = @ \cup {ChannelInfoSeries(Cfg(w))}]
    /\ count' = [count EXCEPT ![w] = 0]
    /\ pc' = [pc EXCEPT ![w] = "check"]
    /\ UNCHANGED <<main, streams, threads, registered_streams, gauge, counter, result,
                   succeeded, fired>>

-----------------------------------------------------------------------------
(* YouTubeMonitor.monitor_loop and the three operations of a tick *)

\* mutant: the engagement call is due at the end of each interval, not at its start
EngagementDueLate(cnt) == (cnt + 1) % engagement_interval = 0

\* "if count % engagement_interval == 0" and "if count % channel_interval == 0"
EngagementDue(cnt) == cnt % engagement_interval = 0
ChannelDue(cnt) == cnt % channel_interval = 0

\* mutant: the channel call is made before the engagement call
AfterCheckChannelFirst(cnt) ==
    IF ChannelDue(cnt) THEN "channel" ELSE IF EngagementDue(cnt) THEN "engagement" ELSE "incr"

\* where monitor_loop goes after check_stream_status, after get_video_engagement
AfterCheck(cnt) ==
    IF EngagementDue(cnt) THEN "engagement" ELSE IF ChannelDue(cnt) THEN "channel" ELSE "incr"
AfterEngagement(cnt) == IF ChannelDue(cnt) THEN "channel" ELSE "incr"

\* str(b) of a Python bool
Str(b) == IF b THEN "True" ELSE "False"

\* check_stream_status: what it reads from the response's items
IsLive(items) == items # <<>> /\ items[1].liveBroadcastContent = "live"
ViewerCount(items) == IF items # <<>> THEN items[1].concurrentViewers ELSE 0
VideoTitle(items) == IF items # <<>> THEN items[1].title ELSE ""

\* mutant: the check counter is not increased
CheckCountSkipped(c, cfg) == c

\* "self.metrics.check_count.labels(**self.base_labels).inc()"
CheckCountInc(c, cfg) == CounterInc(c, BaseSeries("youtube_stream_check_count", cfg), 1)

\* the number of ticks the workers have begun (the bound of the model caps it)
RECURSIVE TicksBegun(_)
TicksBegun(n) == IF n = 0 THEN 0 ELSE Len(fired[n].check) + TicksBegun(n - 1)

\* check_stream_status, from its first line to the API request: the check
\* counter is increased before the request is sent.  monitor_loop calls it
\* in every iteration; the model stops after `bound` ticks.
check_stream_status_begin(w, bound) ==
    /\ pc[w] = "check"
    /\ TicksBegun(NumStreams) < bound
    /\ counter' = CheckCountInc(counter, Cfg(w))
    /\ writes' = [writes EXCEPT ![w] = @ \cup {BaseSeries("youtube_stream_check_count", Cfg(w))}]
    /\ fired' = [fired EXCEPT ![w].check = Append(@, count[w])]
    /\ pc' = [pc EXCEPT ![w] = "status_request"]
    /\ UNCHANGED <<main, streams, threads, registered_streams, gauge, info, count, result,
                   succeeded>>

\* the gauges a successful check_stream_status writes
CheckOkGauges(g, cfg, items) ==
    GaugeSet(GaugeSet(g, StatusSeries(cfg), Float(IF IsLive(items) THEN 1 ELSE 0)),
             BaseSeries("youtube_stream_viewers", cfg), Float(ViewerCount(items)))

\* mutant: an offline stream is not counted as an error
CheckOkCountersNoOffline(c, cfg, items) == c

\* mutant: every completed check is counted as an error, live or not
CheckOkCountersAlways(c, cfg, items) ==
    CounterInc(c, BaseSeries("youtube_stream_error_count", cfg), 1)

\* "if not is_live: self.metrics.error_count...inc()"
CheckOkCounters(c, cfg, items) ==
    IF ~IsLive(items) THEN CounterInc(c, BaseSeries("youtube_stream_error_count", cfg), 1)
    ELSE c

\* the counter series a successful check_stream_status writes
CheckOkCounterWrites(cfg, items) ==
    IF ~IsLive(items) THEN {BaseSeries("youtube_stream_error_count", cfg)} ELSE {}

\* the video_info record (last_updated, a wall-clock time, is left out)
VideoInfoRecord(items) == [title |-> VideoTitle(items), is_live |-> Str(IsLive(items))]

\* check_stream_status: the API answered with JSON whose items are `items`
check_stream_status_ok(w, items) ==
    /\ pc[w] = "status_request"
    /\ info' = InfoSet(info, VideoInfoSeries(Cfg(w)), VideoInfoRecord(items))
    /\ gauge' = CheckOkGauges(gauge, Cfg(w), items)
    /\ counter' = CheckOkCounters(counter, Cfg(w), items)
    /\ writes' = [writes EXCEPT ![w] = @ \cup
                    {VideoInfoSeries(Cfg(w)), StatusSeries(Cfg(w)),
                     BaseSeries("youtube_stream_viewers", Cfg(w))}
                    \cup CheckOkCounterWrites(Cfg(w), items)]
    /\ result' = [result EXCEPT ![w] =
                    [op |-> "check_stream_status",
                     value |-> <<IsLive(items), ViewerCount(items), VideoTitle(items)>>,
                     raised |-> FALSE, empty |-> items = <<>>]]
    /\ succeeded' = [succeeded EXCEPT ![w] = TRUE]
    /\ fired' = [fired EXCEPT ![w].live = IF IsLive(items) THEN @ + 1 ELSE @]
    /\ pc' = [pc EXCEPT ![w] = AfterCheck(count[w])]
    /\ UNCHANGED <<main, streams, threads, registered_streams, count>>

\* mutant: the handler leaves the status gauge as it was
CheckExceptGaugesStale(g, cfg) == g

\* mutant: the handler resets the viewer count as well
CheckExceptGaugesViewers(g, cfg) ==
    GaugeSet(GaugeSet(g, StatusSeries(cfg), Float(0)),
             BaseSeries("youtube_stream_viewers", cfg), Float(0))

\* the "except Exception" handler of check_stream_status: gauges and counters
CheckExceptGauges(g, cfg) == GaugeSet(g, StatusSeries(cfg), Float(0))

\* mutant: the handler counts the API error only
CheckExceptCountersApiOnly(c, cfg) == CounterInc(c, BaseSeries("youtube_api_errors", cfg), 1)

CheckExceptCounters(c, cfg) ==
    CounterInc(CounterInc(c, BaseSeries("youtube_stream_error_count", cfg), 1),
               BaseSeries("youtube_api_errors", cfg), 1)

\* check_stream_status: the request or the parsing of its answer raised
check_stream_status_except(w) ==
    /\ pc[w] = "status_request"
    /\ gauge' = CheckExceptGauges(gauge, Cfg(w))
    /\ counter' = CheckExceptCounters(counter, Cfg(w))
    /\ writes' = [writes EXCEPT ![w] = @ \cup
                    {StatusSeries(Cfg(w)), BaseSeries("youtube_stream_error_count", Cfg(w)),
                     BaseSeries("youtube_api_errors", Cfg(w))}]
    /\ result' = [result EXCEPT ![w] =
                    [op |-> "check_stream_status", value |-> <<FALSE, 0, "">>,
                     raised |-> TRUE, empty |-> FALSE]]
    /\ pc' = [pc EXCEPT ![w] = AfterCheck(count[w])]
    /\ UNCHANGED <<main, streams, threads, registered_streams, info, count, succeeded, fired>>

\* get_video_engagement: the gauges written for a response with these items;
\* nothing is written when items is empty
EngagementRate(likes, views) == Frac(likes * 100, views)

\* mutant: the rate is reset to 0 when there are no views
RateUpdateReset(g, cfg, likes, views) ==
    GaugeSet(g, BaseSeries("youtube_engagement_rate", cfg),
             IF views > 0 THEN EngagementRate(likes, views) ELSE Float(0))

\* "if views > 0: engagement_rate = (likes / views) * 100; ...set(engagement_rate)"
RateUpdate(g, cfg, likes, views) ==
    IF views > 0
    THEN GaugeSet(g, BaseSeries("youtube_engagement_rate", cfg), EngagementRate(likes, views))
    ELSE g

EngagementGauges(g, cfg, items) ==
    IF items = <<>> THEN g
    ELSE LET stats == items[1]
             g4 == GaugeSet(GaugeSet(GaugeSet(GaugeSet(g,
                      BaseSeries("youtube_video_views", cfg), Float(stats.viewCount)),
                      BaseSeries("youtube_video_likes", cfg), Float(stats.likeCount)),
                      BaseSeries("youtube_video_comments", cfg), Float(stats.commentCount)),
                      BaseSeries("youtube_video_favorites", cfg), Float(stats.favoriteCount))
         IN  RateUpdate(g4, cfg, stats.likeCount, stats.viewCount)

EngagementWrites(cfg, items) ==
    IF items = <<>> THEN {}
    ELSE {BaseSeries(m, cfg) : m \in {"youtube_video_views", "youtube_video_likes",
                                       "youtube_video_comments", "youtube_video_favorites"}}
         \cup (IF items[1].viewCount > 0
               THEN {BaseSeries("youtube_engagement_rate", cfg)} ELSE {})

\* "return views, likes, comments", or None when the function falls off its end
EngagementResult(items) ==
    IF items = <<>> THEN None
    ELSE <<items[1].viewCount, items[1].likeCount, items[1].commentCount>>

\* get_video_engagement: the API answered with JSON whose items are `items`
get_video_engagement_ok(w, items) ==
    /\ pc[w] = "engagement"
    /\ gauge' = EngagementGauges(gauge, Cfg(w), items)
    /\ writes' = [writes EXCEPT ![w] = @ \cup EngagementWrites(Cfg(w), items)]
    /\ fired' = [fired EXCEPT ![w].engagement = Append(@, count[w])]
    /\ result' = [result EXCEPT ![w] =
                    [op |-> "get_video_engagement", value |-> EngagementResult(items),
                     raised |-> FALSE, empty |-> items = <<>>]]
    /\ succeeded' = [succeeded EXCEPT ![w] = TRUE]
    /\ pc' = [pc EXCEPT ![w] = AfterEngagement(count[w])]
    /\ UNCHANGED <<main, streams, threads, registered_streams, counter, info, count>>

\* mutant: a failed secondary call is counted as a stream error too
ApiErrorIncBoth(c, cfg) ==
    CounterInc(CounterInc(c, BaseSeries("youtube_api_errors", cfg), 1),
               BaseSeries("youtube_stream_error_count", cfg), 1)

\* the "except Exception" handlers of get_video_engagement and get_channel_info
ApiErrorInc(c, cfg) == CounterInc(c, BaseSeries("youtube_api_errors", cfg), 1)

\* mutant: the failure is not caught and ends monitor_loop
get_video_engagement_propagates(w) ==
    /\ pc[w] = "engagement"
    /\ pc' = [pc EXCEPT ![w] = "crashed"]
    /\ UNCHANGED <<main, streams, threads, registered_streams, gauge, counter, info, count,
                   result, succeeded, writes, fired>>

\* get_video_engagement: the request or the parsing of its answer raised
get_video_engagement_except(w) ==
    /\ pc[w] = "engagement"
    /\ counter' = ApiErrorInc(counter, Cfg(w))
    /\ writes' = [writes EXCEPT ![w] = @ \cup {BaseSeries("youtube_api_errors", Cfg(w))}]
    /\ fired' = [fired EXCEPT ![w].engagement = Append(@, count[w])]
    /\ result' = [result EXCEPT ![w] =
                    [op |-> "get_video_engagement", value |-> <<0, 0, 0>>,
                     raised |-> TRUE, empty |-> FALSE]]
    /\ pc' = [pc EXCEPT ![w] = AfterEngagement(count[w])]
    /\ UNCHANGED <<main, streams, threads, registered_streams, gauge, info, count, succeeded>>

\* get_channel_info: what is written for a response with these items
\* (descriptions of the model are shorter than 100 characters, so [:100] keeps them)
ChannelGauges(g, cfg, items) ==
    IF items = <<>> THEN g
    ELSE GaugeSet(g, SubscribersSeries(cfg), Float(items[1].subscriberCount))

ChannelInfoRecord(item) ==
    [title |-> item.title, description |-> item.description \o "...",
     subscriber_count |-> ToString(item.subscriberCount)]

ChannelInfos(i, cfg, items) ==
    IF items = <<>> THEN i
    ELSE InfoSet(i, ChannelInfoSeries(cfg), ChannelInfoRecord(items[1]))

ChannelWrites(cfg, items) ==
    IF items = <<>> THEN {} ELSE {SubscribersSeries(cfg), ChannelInfoSeries(cfg)}

ChannelResult(items) == IF items = <<>> THEN None ELSE <<items[1].subscriberCount>>

\* get_channel_info: the API answered with JSON whose items are `items`
get_channel_info_ok(w, items) ==
    /\ pc[w] = "channel"
    /\ gauge' = ChannelGauges(gauge, Cfg(w), items)
    /\ info' = ChannelInfos(info, Cfg(w), items)
    /\ writes' = [writes EXCEPT ![w] = @ \cup ChannelWrites(Cfg(w), items)]
    /\ fired' = [fired EXCEPT ![w].channel = Append(@, count[w])]
    /\ result' = [result EXCEPT ![w] =
                    [op |-> "get_channel_info", value |-> ChannelResult(items),
                     raised |-> FALSE, empty |-> items = <<>>]]
    /\ succeeded' = [succeeded EXCEPT ![w] = TRUE]
    /\ pc' = [pc EXCEPT ![w] = "incr"]
    /\ UNCHANGED <<main, streams, threads, registered_streams, counter, count>>

\* get_channel_info: the request or the parsing of its answer raised
get_channel_info_except(w) ==
    /\ pc[w] = "channel"
    /\ counter' = ApiErrorInc(counter, Cfg(w))
    /\ writes' = [writes EXCEPT ![w] = @ \cup {BaseSeries("youtube_api_errors", Cfg(w))}]
    /\ fired' = [fired EXCEPT ![w].channel = Append(@, count[w])]
    /\ result' = [result EXCEPT ![w] =
                    [op |-> "get_channel_info", value |-> <<0>>, raised |-> TRUE, empty |-> FALSE]]
    /\ pc' = [pc EXCEPT ![w] = "incr"]
    /\ UNCHANGED <<main, streams, threads, registered_streams, gauge, info, count, succeeded>>

\* monitor_loop: "count += 1", then time.sleep(interval) and the next iteration
monitor_loop_incr(w) ==
    /\ pc[w] = "incr"
    /\ count' = [count EXCEPT ![w] = @ + 1]
    /\ pc' = [pc EXCEPT ![w] = "check"]
    /\ UNCHANGED <<main, streams, threads, registered_streams, gauge, counter, info, result,
                   succeeded, writes, fired>>

-----------------------------------------------------------------------------
(* Faults, and main() as the supervisor of the threads *)

\* the three inc(0) of initialize_counters, in the order they are made
CounterInitOrder ==
    <<"youtube_api_errors", "youtube_stream_check_count", "youtube_stream_error_count">>

\* initialize_counters: a registry error is raised by one of the inc(0), after
\* n of them were made; "except Exception" prints it and the function returns
initialize_counters_except(w) ==
    /\ pc[w] = "init_counters"
    /\ \E n \in 0..(Len(CounterInitOrder) - 1) :
          LET done == {BaseSeries(CounterInitOrder[i], Cfg(w)) : i \in 1..n}
          IN /\ counter' = [s \in (DOMAIN counter) \cup done |->
                               IF s \in DOMAIN counter THEN counter[s] + 0 ELSE 0]
             /\ writes' = [writes EXCEPT ![w] = @ \cup done]
    /\ pc' = [pc EXCEPT ![w] = "mark"]
    /\ UNCHANGED <<main, streams, threads, registered_streams, gauge, info, count, result,
                   succeeded, fired>>

\* the process runs until main() returns
ProcessAlive == main.pc \in {"start", "join"}

\* the steps of run_monitor whose registry writes are outside every try block:
\* the gauge writes of register_stream, the channel_info write of __init__ and
\* the writes of the three "except Exception" handlers
Unguarded == {"init_gauges", "channel_info", "status_request", "engagement", "channel"}

\* an exception escapes run_monitor: the thread of worker w terminates
thread_raises(w) ==
    /\ ProcessAlive
    /\ pc[w] \in Unguarded
    /\ pc' = [pc EXCEPT ![w] = "crashed"]
    /\ UNCHANGED <<main, streams, threads, registered_streams, gauge, counter, info, count,
                   result, succeeded, writes, fired>>

\* mutant: main() does not wait for the thread
JoinSkipped(w) == TRUE

\* thread.join() returns once the thread has terminated
JoinReturns(w) == pc[w] = "crashed"

\* main(): "for thread in threads: thread.join()", then main() returns and the
\* daemon threads end with the process
main_join ==
    /\ main.pc = "join"
    /\ JoinReturns(main.joined + 1)
    /\ main' = [pc |-> IF main.joined + 1 = Len(streams) THEN "returned" ELSE "join",
                joined |-> main.joined + 1]
    /\ UNCHANGED <<streams, threads, registered_streams, gauge, counter, info, pc, count,
                   result, succeeded, writes, fired>>

\* main(): "except KeyboardInterrupt", while the threads are started or joined
keyboard_interrupt ==
    /\ ProcessAlive
    /\ main' = [main EXCEPT !.pc = "interrupted"]
    /\ UNCHANGED <<streams, threads, registered_streams, gauge, counter, info, pc, count,
                   result, succeeded, writes, fired>>

-----------------------------------------------------------------------------
(* Specifications *)

\* the ticks in which each operation was called, and the number of checks that
\* observed the stream live
NoFired == [check |-> <<>>, live |-> 0, engagement |-> <<>>, channel |-> <<>>]

InitRest ==
    /\ main = [pc |-> "start", joined |-> 0]
    /\ threads = 0
    /\ registered_streams = {}
    /\ gauge = <<>>
    /\ counter = <<>>
    /\ info = <<>>
    /\ pc = [w \in Workers |-> "idle"]
    /\ count = [w \in Workers |-> 0]
    /\ result = [w \in Workers |-> NoResult]
    /\ succeeded = [w \in Workers |-> FALSE]
    /\ writes = [w \in Workers |-> {}]
    /\ fired = [w \in Workers |-> NoFired]

\* main() with two configured streams, the second one any configuration
Init ==
    /\ streams \in {<<FirstStream, c>> : c \in Configs}
    /\ InitRest

\* one step of worker w, running at most `bound` ticks
WorkerStep(w, bound) ==
    \/ register_stream_check(w)
    \/ register_stream_gauges(w)
    \/ initialize_counters(w)
    \/ register_stream_add(w)
    \/ init_channel_info(w)
    \/ check_stream_status_begin(w, bound)
    \/ \E items \in VideoResponses : check_stream_status_ok(w, items)
    \/ check_stream_status_except(w)
    \/ \E items \in StatResponses : get_video_engagement_ok(w, items)
    \/ get_video_engagement_except(w)
    \/ \E items \in ChannelResponses : get_channel_info_ok(w, items)
    \/ get_channel_info_except(w)
    \/ monitor_loop_incr(w)

Next ==
    \/ main_start_thread
    \/ \E w \in Workers : WorkerStep(w, MaxTicks)

Spec == Init /\ [][Next]_vars

\* main() with a single configured stream, run for the ticks of a cadence cycle
InitCadence ==
    /\ streams = <<FirstStream>>
    /\ InitRest

NextCadence ==
    \/ main_start_thread
    \/ \E w \in Workers : WorkerStep(w, CadenceTicks)

SpecCadence == InitCadence /\ [][NextCadence]_vars

\* a single configured stream whose thread is scheduled again and again, run
\* for the ticks up to the second engagement call
NextLive ==
    \/ main_start_thread
    \/ \E w \in Workers : WorkerStep(w, LiveTicks)

SpecLive == InitCadence /\ [][NextLive]_vars /\ WF_vars(NextLive)

\* the upstream API is down for worker w: each of its requests raises
UpstreamDown(w) == count[w] >= OutageTick

\* the same with an upstream failure that persists from tick OutageTick on
NextOutage ==
    \/ main_start_thread
    \/ \E w \in Workers :
          /\ WorkerStep(w, LiveTicks)
          /\ (UpstreamDown(w) /\ pc[w] \in {"status_request", "engagement", "channel"})
                => result'[w].raised

SpecOutage == InitCadence /\ [][NextOutage]_vars /\ WF_vars(NextOutage)

\* main() with its two streams, of two channels
InitFaults ==
    /\ streams = <<FirstStream, [FirstStream EXCEPT !.channel_id = "a_b"]>>
    /\ InitRest

\* one step of worker w while the process runs
SupervisedStep(w) ==
    /\ ProcessAlive
    /\ \/ WorkerStep(w, SupervisorTicks)
       \/ initialize_counters_except(w)

\* main() and its two threads, with registry errors, threads that terminate
\* with an exception and the interrupt of the main thread
NextFaults ==
    \/ main_start_thread
    \/ main_join
    \/ keyboard_interrupt
    \/ \E w \in Workers : SupervisedStep(w)
    \/ \E w \in Workers : thread_raises(w)

SpecFaults == InitFaults /\ [][NextFaults]_vars

-----------------------------------------------------------------------------
(* Properties *)

\* the workers main() has a configuration for
Configured == 1..Len(streams)

\* the value of a counter series in the counters c (0 when the series is absent)
CounterIn(c, s) == IF s \in DOMAIN c THEN c[s] ELSE 0

CheckSeries(w) == BaseSeries("youtube_stream_check_count", Cfg(w))
ErrorSeries(w) == BaseSeries("youtube_stream_error_count", Cfg(w))
ApiErrorSeries(w) == BaseSeries("youtube_api_errors", Cfg(w))

\* check_stream_status invocations, so far, of the first n workers whose
\* counters carry the labels `lab`
RECURSIVE Invocations(_, _)
Invocations(lab, n) ==
    IF n = 0 THEN 0
    ELSE (IF base_labels(streams[n]) = lab THEN Len(fired[n].check) ELSE 0)
         + Invocations(lab, n - 1)

\* C1: heartbeat. For every entity, stream_check_count equals the number of
\* check_stream_status invocations made for it so far, whatever their outcomes:
\* N invocations have increased it by exactly N.
C1_Heartbeat ==
    \A w \in Configured :
        CounterValue(CheckSeries(w)) = Invocations(base_labels(Cfg(w)), Len(streams))

\* two invocations for one entity, one of them failed and the last one live
C1_Witness ==
    \E w \in Configured :
        /\ CounterValue(CheckSeries(w)) = 2
        /\ CounterValue(ApiErrorSeries(w)) = 1
        /\ result[w].op = "check_stream_status"
        /\ result[w].value = <<TRUE, 7, "t">>

\* C2: API-failure path. The step in which check_stream_status handles a failed
\* API call sets stream_status to 0, increases stream_error_count and
\* api_error_count by exactly 1 and returns (False, 0, ""); the invocation has
\* increased stream_check_count by exactly 1, in its first step and not again.
C2_ApiFailurePath ==
    [][\A w \in Workers :
        /\ (pc[w] = "check" /\ pc'[w] = "status_request") =>
              /\ counter'[CheckSeries(w)] = CounterValue(CheckSeries(w)) + 1
              /\ CounterIn(counter', ErrorSeries(w)) = CounterValue(ErrorSeries(w))
              /\ CounterIn(counter', ApiErrorSeries(w)) = CounterValue(ApiErrorSeries(w))
        /\ (pc[w] = "status_request" /\ pc'[w] # "status_request" /\ result'[w].raised) =>
              /\ gauge'[StatusSeries(Cfg(w))] = Float(0)
              /\ counter'[ErrorSeries(w)] = CounterValue(ErrorSeries(w)) + 1
              /\ counter'[ApiErrorSeries(w)] = CounterValue(ApiErrorSeries(w)) + 1
              /\ counter'[CheckSeries(w)] = counter[CheckSeries(w)]
              /\ result'[w].value = <<FALSE, 0, "">>
      ]_vars

\* a failed check_stream_status has returned, after a live observation
C2_Witness ==
    \E w \in Configured :
        /\ result[w].op = "check_stream_status"
        /\ result[w].raised
        /\ CounterValue(CheckSeries(w)) = 2
        /\ CounterValue(ErrorSeries(w)) = 1
        /\ CounterValue(ApiErrorSeries(w)) = 1
        /\ gauge[StatusSeries(Cfg(w))] = Float(0)

\* C3: offline counts as error. The step in which check_stream_status handles
\* an answered API call sets stream_status to 1 and leaves stream_error_count
\* and api_error_count unchanged when the stream is live; it sets stream_status
\* to 0, increases stream_error_count by exactly 1 and leaves api_error_count
\* unchanged when it is not.
C3_OfflineCountsAsError ==
    [][\A w \in Workers :
        (pc[w] = "status_request" /\ pc'[w] # "status_request" /\ ~result'[w].raised) =>
            /\ CounterIn(counter', ApiErrorSeries(w)) = CounterValue(ApiErrorSeries(w))
            /\ IF result'[w].value[1]
               THEN /\ gauge'[StatusSeries(Cfg(w))] = Float(1)
                    /\ CounterIn(counter', ErrorSeries(w)) = CounterValue(ErrorSeries(w))
               ELSE /\ gauge'[StatusSeries(Cfg(w))] = Float(0)
                    /\ CounterIn(counter', ErrorSeries(w)) = CounterValue(ErrorSeries(w)) + 1
      ]_vars

\* an answered check has reported the stream offline: one error, no API error
C3_Witness ==
    \E w \in Configured :
        /\ result[w].op = "check_stream_status"
        /\ result[w].value = <<FALSE, 0, "t">>
        /\ CounterValue(ErrorSeries(w)) = 1
        /\ CounterValue(ApiErrorSeries(w)) = 0
        /\ gauge[StatusSeries(Cfg(w))] = Float(0)

\* C4: counter monotonicity. No step of any worker (registration, construction
\* or polling, in any interleaving) removes a counter series or decreases one.
C4_CounterMonotonic ==
    [][\A s \in DOMAIN counter : s \in DOMAIN counter' /\ counter'[s] >= counter[s]]_vars

\* initialize_counters has just run on counters that polling had increased
C4_Witness ==
    \E w \in Configured :
        /\ pc[w] = "mark"
        /\ CounterValue(CheckSeries(w)) > 0
        /\ CounterValue(ErrorSeries(w)) > 0

\* C5: idempotent registration. A register_stream call that finds its stream
\* key registered returns at once and changes no series and no registration.
C5_IdempotentRegistration ==
    [][\A w \in Workers :
        (pc[w] = "register" /\ pc'[w] # "register"
            /\ stream_key(Cfg(w)) \in registered_streams) =>
                /\ pc'[w] = "channel_info"
                /\ gauge' = gauge
                /\ counter' = counter
                /\ info' = info
                /\ registered_streams' = registered_streams
      ]_vars

\* a second registration of an entity returned without a write, after polling
\* had made its gauges and counters non-zero
C5_Witness ==
    \E w \in Configured :
        /\ pc[w] = "channel_info"
        /\ writes[w] = {}
        /\ StatusSeries(Cfg(w)) \in DOMAIN gauge
        /\ gauge[StatusSeries(Cfg(w))] = Float(1)
        /\ gauge[BaseSeries("youtube_stream_viewers", Cfg(w))] = Float(7)
        /\ CounterValue(CheckSeries(w)) = 1

\* C6: concurrent registration of one entity is at-most-once, so a value a poll
\* wrote is not overwritten with 0 by a late registration: while a worker's last
\* return value is a live observation and no other worker has polled the same
\* stream_status series, the series reads 1.
C6_NoPollValueLost ==
    \A v \in Configured :
        ( /\ result[v].op = "check_stream_status"
          /\ ~result[v].raised
          /\ result[v].value[1]
          /\ \A w \in Configured \ {v} :
                StatusSeries(Cfg(w)) = StatusSeries(Cfg(v)) => fired[w].check = <<>> )
        => gauge[StatusSeries(Cfg(v))] = Float(1)

RateSeries(w) == BaseSeries("youtube_engagement_rate", Cfg(w))

\* C7: engagement guard. The step in which get_video_engagement handles an
\* answered call with statistics leaves the engagement_rate series as it was
\* (absent or at its previous value) when views = 0, and sets it to
\* likes / views * 100 when views > 0; views = 200 and likes = 10 give 5.
C7_EngagementGuard ==
    [][\A w \in Workers :
        ( /\ pc[w] = "engagement"
          /\ pc'[w] # "engagement"
          /\ ~result'[w].raised
          /\ result'[w].value # None ) =>
            LET views == result'[w].value[1]
                likes == result'[w].value[2]
                rate == RateSeries(w)
            IN  /\ views = 0 =>
                      /\ rate \in DOMAIN gauge' <=> rate \in DOMAIN gauge
                      /\ rate \in DOMAIN gauge => gauge'[rate] = gauge[rate]
                /\ views > 0 =>
                      /\ gauge'[rate][2] > 0
                      /\ gauge'[rate][1] * views = gauge'[rate][2] * likes * 100
                /\ (views = 200 /\ likes = 10) => gauge'[rate] = <<5, 1>>
      ]_vars

\* an answered call with views = 0 has returned and the rate still reads 5
C7_Witness ==
    \E w \in Configured :
        /\ result[w].op = "get_video_engagement"
        /\ ~result[w].raised
        /\ result[w].value = <<0, 0, 0>>
        /\ RateSeries(w) \in DOMAIN gauge
        /\ gauge[RateSeries(w)] = <<5, 1>>
        /\ gauge[BaseSeries("youtube_video_views", Cfg(w))] = <<0, 1>>

\* the worker is inside a tick: check_stream_status has been called
InTick(w) == pc[w] \in {"status_request", "engagement", "channel", "incr"}

\* the ticks whose engagement call, and whose channel call, has returned
EngagementTicks(w) ==
    {t \in 0..count[w] : t % 5 = 0 /\ (t < count[w] \/ pc[w] \in {"channel", "incr"})}
ChannelTicks(w) ==
    {t \in 0..count[w] : t % 10 = 0 /\ (t < count[w] \/ pc[w] = "incr")}

\* seq lists the elements of the set S of numbers in increasing order
Lists(seq, S) ==
    /\ Len(seq) = Cardinality(S)
    /\ \A i \in 1..Len(seq) : seq[i] \in S /\ (i > 1 => seq[i - 1] < seq[i])

\* C8: cadence. check_stream_status has been invoked once in every tick begun,
\* get_video_engagement exactly in the ticks with count mod 5 = 0 and
\* get_channel_info exactly in those with count mod 10 = 0; count is the number
\* of ticks completed, whatever the outcomes; after ticks 0..10 the engagement
\* calls were made at 0, 5, 10 and the channel calls at 0, 10.
C8_Cadence ==
    \A w \in Configured :
        /\ fired[w].check = [i \in 1..(count[w] + IF InTick(w) THEN 1 ELSE 0) |-> i - 1]
        /\ Lists(fired[w].engagement, EngagementTicks(w))
        /\ Lists(fired[w].channel, ChannelTicks(w))
        /\ count[w] = 11 =>
              /\ fired[w].engagement = <<0, 5, 10>>
              /\ fired[w].channel = <<0, 10>>

\* ticks 0..10 have run, with failed and with answered API calls among them
C8_Witness ==
    \E w \in Configured :
        /\ count[w] = 11
        /\ CounterValue(ApiErrorSeries(w)) > 0
        /\ succeeded[w]

\* two workers are configured for distinct entities
DistinctEntities(a, b) ==
    /\ a # b
    /\ <<Cfg(a).channel_id, Cfg(a).video_id, Cfg(a).name>>
         # <<Cfg(b).channel_id, Cfg(b).video_id, Cfg(b).name>>

\* the step leaves an existing series at its value
GaugeKept(s) == s \in DOMAIN gauge => (s \in DOMAIN gauge' /\ gauge'[s] = gauge[s])
CounterKept(s) == s \in DOMAIN counter => (s \in DOMAIN counter' /\ counter'[s] = counter[s])
InfoKept(s) == s \in DOMAIN info => (s \in DOMAIN info' /\ info'[s] = info[s])

\* C9: isolation. A step of a worker for entity A none of whose API calls has
\* been answered (construction and registration included) changes no gauge,
\* counter or info series of a distinct entity B.
C9_Isolation ==
    [][\A a, b \in Configured :
        (DistinctEntities(a, b) /\ pc'[a] # pc[a] /\ ~succeeded'[a]) =>
            /\ \A s \in GaugeSeries(Cfg(b)) : GaugeKept(s)
            /\ \A s \in CounterSeries(Cfg(b)) : CounterKept(s)
            /\ \A s \in {ChannelInfoSeries(Cfg(b)), VideoInfoSeries(Cfg(b))} : InfoKept(s)
      ]_vars

\* C10: series ownership. Two workers for distinct entities never write the
\* same series.
C10_SeriesOwnership ==
    \A a, b \in Configured : DistinctEntities(a, b) => writes[a] \cap writes[b] = {}

\* the worker has been constructed: it is in monitor_loop
Polling(w) == pc[w] \in {"check", "status_request", "engagement", "channel", "incr"}

\* C11: zero value before observation. Once a worker is constructed, so before
\* its first polling write, each of its own gauge and counter series exists: it
\* has been set to 0 by register_stream.
C11_ZeroBeforeObservation ==
    \A w \in Configured :
        Polling(w) =>
            /\ GaugeSeries(Cfg(w)) \subseteq DOMAIN gauge
            /\ CounterSeries(Cfg(w)) \subseteq DOMAIN counter

C19_StaleViewers ==
    [][\A w \in Workers :
        (pc[w] = "status_request" /\ pc'[w] # pc[w] /\ result'[w].raised) =>
            /\ DOMAIN gauge' = DOMAIN gauge \cup {StatusSeries(Cfg(w))}
            /\ \A s \in DOMAIN gauge \ {StatusSeries(Cfg(w))} : gauge'[s] = gauge[s]
            /\ info' = info
      ]_vars

\* a failed check after a live observation: stream_status 0 with 7 viewers
C19_Witness ==
    \E w \in Configured :
        /\ result[w].op = "check_stream_status"
        /\ result[w].raised
        /\ gauge[StatusSeries(Cfg(w))] = Float(0)
        /\ BaseSeries("youtube_stream_viewers", Cfg(w)) \in DOMAIN gauge
        /\ gauge[BaseSeries("youtube_stream_viewers", Cfg(w))] = Float(7)
        /\ VideoInfoSeries(Cfg(w)) \in DOMAIN info
        /\ info[VideoInfoSeries(Cfg(w))] = [title |-> "t", is_live |-> "True"]


\* check_stream_status invocations, so far, of the first n workers whose
\* counters carry the labels `lab`, that observed the stream live
RECURSIVE LiveObservations(_, _)
LiveObservations(lab, n) ==
    IF n = 0 THEN 0
    ELSE (IF base_labels(streams[n]) = lab THEN fired[n].live ELSE 0)
         + LiveObservations(lab, n - 1)

\* check_stream_status invocations of the first n workers whose counters carry
\* the labels `lab` that have counted themselves and not yet got their answer
RECURSIVE InFlight(_, _)
InFlight(lab, n) ==
    IF n = 0 THEN 0
    ELSE (IF base_labels(streams[n]) = lab /\ pc[n] = "status_request" THEN 1 ELSE 0)
         + InFlight(lab, n - 1)

GaugeIn(g, s) == IF s \in DOMAIN g THEN g[s] ELSE None

\* C15: empty upstream result. When the API answers with zero items the
\* operation does not increment api_error_count and the fields it writes are
\* zero afterwards: stream_status and stream_viewers for check_stream_status;
\* video_views, video_likes, video_comments, video_favorites and a zero result
\* for get_video_engagement; channel_subscribers and the result 0 for
\* get_channel_info.
C15_EmptyResult == [][\A w \in Workers :
        (pc[w] \in {"status_request", "engagement", "channel"} /\ pc'[w] # pc[w]
            /\ result'[w].empty) =>
            /\ CounterIn(counter', ApiErrorSeries(w)) = CounterIn(counter, ApiErrorSeries(w))
            /\ pc[w] = "status_request" =>
                  /\ GaugeIn(gauge', StatusSeries(Cfg(w))) = Float(0)
                  /\ GaugeIn(gauge', BaseSeries("youtube_stream_viewers", Cfg(w))) = Float(0)
            /\ pc[w] = "engagement" =>
                  /\ \A m \in {"youtube_video_views", "youtube_video_likes",
                               "youtube_video_comments", "youtube_video_favorites"} :
                         GaugeIn(gauge', BaseSeries(m, Cfg(w))) = Float(0)
                  /\ result'[w].value = <<0, 0, 0>>
            /\ pc[w] = "channel" =>
                  /\ GaugeIn(gauge', SubscribersSeries(Cfg(w))) = Float(0)
                  /\ result'[w].value = <<0>>
    ]_vars

\* the ticks listed in a call history
Ticks(seq) == {seq[i] : i \in 1..Len(seq)}

\* worker w starts a call of the operation whose history is field f
Starts(w, f) == fired'[w][f] # fired[w][f]

\* C18: intra-tick ordering. Within one worker an operation starts only when no
\* other is running; check_stream_status of tick k starts only after every
\* operation due in the ticks before k has returned, get_video_engagement only
\* right after check_stream_status of its tick has returned and before
\* get_channel_info of that tick, and get_channel_info only after
\* check_stream_status and, when due, get_video_engagement of its tick have
\* returned.
C18_IntraTickOrder == [][\A w \in Workers :
        /\ Starts(w, "check") =>
              /\ pc[w] # "status_request"
              /\ \A t \in 0..(count[w] - 1) :
                    /\ t \in Ticks(fired[w].check)
                    /\ EngagementDue(t) => t \in Ticks(fired[w].engagement)
                    /\ ChannelDue(t) => t \in Ticks(fired[w].channel)
              /\ count[w] \notin Ticks(fired[w].check)
        /\ Starts(w, "engagement") =>
              /\ pc[w] # "status_request"
              /\ count[w] \in Ticks(fired[w].check)
              /\ result[w].op = "check_stream_status"
              /\ count[w] \notin Ticks(fired[w].engagement) \cup Ticks(fired[w].channel)
        /\ Starts(w, "channel") =>
              /\ pc[w] # "status_request"
              /\ count[w] \in Ticks(fired[w].check)
              /\ IF EngagementDue(count[w])
                 THEN /\ count[w] \in Ticks(fired[w].engagement)
                      /\ result[w].op = "get_video_engagement"
                 ELSE result[w].op = "check_stream_status"
              /\ count[w] \notin Ticks(fired[w].channel)
    ]_vars

\* tick 10 has run its three operations, get_channel_info last
C18_Witness ==
    \E w \in Configured :
        /\ count[w] = 10
        /\ pc[w] = "incr"
        /\ result[w].op = "get_channel_info"
        /\ fired[w].engagement = <<0, 5, 10>>
        /\ fired[w].channel = <<0, 10>>

\* C12: failure boundary. No API failure ends monitor_loop: a worker whose
\* operation has failed, in whatever tick, goes on to increment count and to run
\* the ticks that follow, and a constructed worker invokes check_stream_status
\* in every tick up to the bound, whichever operations fail on the way.
C12_FailureBoundary ==
    \A w \in Workers :
        /\ result[w].raised ~> (count[w] = LiveTicks)
        /\ (pc[w] = "check") ~> (Len(fired[w].check) = LiveTicks)

\* every operation of every tick has failed and the worker has run all its ticks
C12_Witness ==
    \E w \in Configured :
        /\ count[w] = LiveTicks
        /\ ~succeeded[w]
        /\ CounterValue(ErrorSeries(w)) = LiveTicks
        /\ Len(fired[w].engagement) = 2

\* worker w has completed a check_stream_status since the upstream went down
CheckedSinceDown(w) ==
    \/ count[w] > OutageTick
    \/ count[w] = OutageTick /\ pc[w] \in {"engagement", "channel", "incr"}

\* C14: persistent upstream failure. Once every API call of a worker fails,
\* from the worker's next check_stream_status on stream_status is 0 and stays
\* 0, every check_stream_status adds one to stream_error_count and one to
\* api_error_count, so both increase in every tick, and the worker goes on
\* ticking: it runs every tick up to the bound.
C14_PersistentFailure ==
    /\ [](\A w \in Workers :
            (pc[w] # "idle" /\ CheckedSinceDown(w)) =>
                GaugeIn(gauge, StatusSeries(streams[w])) = Float(0))
    /\ [][\A w \in Workers :
            (UpstreamDown(w) /\ pc[w] = "status_request" /\ pc'[w] # pc[w]) =>
                /\ CounterIn(counter', ErrorSeries(w)) = CounterIn(counter, ErrorSeries(w)) + 1
                /\ CounterIn(counter', ApiErrorSeries(w)) = CounterIn(counter, ApiErrorSeries(w)) + 1
       ]_vars
    /\ \A w \in Workers :
            (pc[w] = "check" /\ UpstreamDown(w)) ~> (count[w] = LiveTicks)

\* the stream was seen live in tick 0, then the upstream went down: the status
\* is 0, the viewers are those of tick 0 and the worker has run all its ticks
C14_Witness ==
    \E w \in Configured :
        /\ count[w] = LiveTicks
        /\ fired[w].live = OutageTick
        /\ gauge[StatusSeries(Cfg(w))] = Float(0)
        /\ CounterValue(ErrorSeries(w)) = LiveTicks - OutageTick
        /\ CounterValue(ApiErrorSeries(w)) = LiveTicks - OutageTick + 1

\* worker w runs: its thread was started and has not terminated
Running(w) == pc[w] \notin {"idle", "crashed"}

\* C16: supervisor isolation. The step in which a worker's thread terminates
\* with an unhandled failure changes nothing of its siblings, a running sibling
\* inside a tick can take its next step as long as the main thread is not
\* interrupted, and main() does not return while a started worker is running:
\* short of the interrupt, the process ends only when every thread has
\* terminated.
C16_SupervisorIsolation ==
    /\ [][\A w \in Workers :
            (pc'[w] = "crashed" /\ pc[w] # "crashed") =>
                /\ \A v \in Workers \ {w} : pc'[v] = pc[v] /\ count'[v] = count[v]
                /\ main' = main
                /\ gauge' = gauge /\ counter' = counter /\ info' = info
       ]_vars
    /\ [](\A w \in Workers :
            (Running(w) /\ InTick(w) /\ main.pc # "interrupted") => ENABLED SupervisedStep(w))
    /\ [](main.pc = "returned" => \A w \in Workers : pc[w] = "crashed")

\* one worker has terminated with an unhandled failure, main() has joined it
\* and waits for the sibling, which has completed a check since
C16_Witness ==
    \E w \in Workers : \E v \in Workers \ {w} :
        /\ pc[w] = "crashed"
        /\ main = [pc |-> "join", joined |-> 1]
        /\ pc[v] = "incr"
        /\ result[v].op = "get_channel_info"

\* C17: fail-fast on registry misuse. A registry error raised by a metric write
\* of initialize_counters surfaces to the caller: register_stream does not mark
\* an entity as registered when the initialization of its counters failed, so
\* the worker that adds a key to registered_streams has initialized its three
\* counter series.
C17_FailFast == [][\A w \in Workers :
        (pc[w] = "mark" /\ stream_key(Cfg(w)) \in registered_streams' \ registered_streams) =>
            CounterSeries(Cfg(w)) \subseteq DOMAIN counter
    ]_vars
=============================================================================
